---- MODULE Spec2Model ----
(***************************************************************************)
(* DisplayPlane (src/unnamed/part_000): the buffer-mapping cache, the      *)
(* active-buffer queue and the dirty mask of one display plane.            *)
(*                                                                         *)
(* The plane's members are the variables, under their source names.  The  *)
(* collaborators that live outside the file (BufferManager, BufferMapper,  *)
(* DataBuffer, GraphicBuffer, the subclass's setDataBuffer(BufferMapper&)) *)
(* are modelled by the contract the specification gives them; their       *)
(* outcomes (lock/map/add/program success) are inputs of the action.       *)
(*                                                                         *)
(* lastOp and calls are history variables: the public operation that ran   *)
(* last (name, argument, result, outcome) and the collaborator calls it    *)
(* issued, in order.                                                       *)
(***************************************************************************)
EXTENDS Integers, Sequences, FiniteSets, TLC

\* ---------------------------------------------------------------- bounds
MaxHandle == 3        \* buffer handles 1..MaxHandle; 0 is the invalid handle
MaxBufferCount == 3   \* initialize(bufferCount): from below the minimum up to this
MaxDim == 1           \* rectangles are 0,0 - d x d with d in 0..MaxDim

\* ------------------------------------------------------ program constants
MIN_DATA_BUFFER_COUNT == 2
PLANE_TRANSFORM_0 == 0
PLANE_TRANSFORM_90 == 90
PLANE_TRANSFORM_180 == 180
PLANE_TRANSFORM_270 == 270
UnsupportedTransforms == {45}

PLANE_POSITION_CHANGED == "PLANE_POSITION_CHANGED"
PLANE_BUFFER_CHANGED == "PLANE_BUFFER_CHANGED"
PLANE_SOURCE_CROP_CHANGED == "PLANE_SOURCE_CROP_CHANGED"
PLANE_TRANSFORM_CHANGED == "PLANE_TRANSFORM_CHANGED"

Handles == 0..MaxHandle
BufferCounts == (MIN_DATA_BUFFER_COUNT - 1)..MaxBufferCount
Devices == 0..1
Rect(x, y, w, h) == [x |-> x, y |-> y, w |-> w, h |-> h]
ZeroRect == Rect(0, 0, 0, 0)
Rects == {Rect(0, 0, d, d) : d \in 0..MaxDim}
Transforms == {PLANE_TRANSFORM_0, PLANE_TRANSFORM_90, PLANE_TRANSFORM_180,
               PLANE_TRANSFORM_270} \cup UnsupportedTransforms
\* What the collaborators of one setDataBuffer call do: the lock fails; or
\* bm->map fails; or mDataBuffers.add fails; or the subclass's
\* setDataBuffer(BufferMapper&) fails; or all succeed.
Outcomes == {"lockfail", "mapfail", "addfail", "setfail", "ok"}

VARIABLES
    mDevice,            \* int
    mInitialized,       \* bool
    mDataBuffers,       \* KeyedVector: buffer key -> mapper, a function on the keys held
    mActiveBuffers,     \* Vector of mappers, front first
    mCacheCapacity,     \* int
    mIsProtectedBuffer, \* bool
    mTransform,         \* int
    mPosition,          \* rectangle
    mSrcCrop,           \* rectangle
    mCurrentDataBuffer, \* handle, 0 when none
    mUpdateMasks,       \* the set of dirty bits
    mappers,            \* the BufferMapper objects, by id: the live ones and those
                        \* the last operation released
    lastOp,             \* history: the last public operation
    calls               \* history: the collaborator calls the last operation made

vars == <<mDevice, mInitialized, mDataBuffers, mActiveBuffers, mCacheCapacity,
          mIsProtectedBuffer, mTransform, mPosition, mSrcCrop, mCurrentDataBuffer,
          mUpdateMasks, mappers, lastOp, calls>>

\* The mappers an operation starts with: the released ones that nothing refers to
\* any more are gone from the heap.
LiveMappers ==
    LET keep == {m \in DOMAIN mappers :
                    \/ mappers[m].ref > 0
                    \/ \E k \in DOMAIN mDataBuffers : mDataBuffers[k] = m
                    \/ \E i \in 1..Len(mActiveBuffers) : mActiveBuffers[i] = m}
    IN  [m \in keep |-> mappers[m]]

\* The plane as one record, so that the methods are operators from plane to plane.
Plane ==
    [mDevice |-> mDevice, mInitialized |-> mInitialized,
     mDataBuffers |-> mDataBuffers, mActiveBuffers |-> mActiveBuffers,
     mCacheCapacity |-> mCacheCapacity, mIsProtectedBuffer |-> mIsProtectedBuffer,
     mTransform |-> mTransform, mPosition |-> mPosition, mSrcCrop |-> mSrcCrop,
     mCurrentDataBuffer |-> mCurrentDataBuffer, mUpdateMasks |-> mUpdateMasks,
     mappers |-> LiveMappers, calls |-> <<>>]

\* Store the plane record p back into the variables, with op as the operation done.
Commit(p, op) ==
    /\ mDevice' = p.mDevice
    /\ mInitialized' = p.mInitialized
    /\ mDataBuffers' = p.mDataBuffers
    /\ mActiveBuffers' = p.mActiveBuffers
    /\ mCacheCapacity' = p.mCacheCapacity
    /\ mIsProtectedBuffer' = p.mIsProtectedBuffer
    /\ mTransform' = p.mTransform
    /\ mPosition' = p.mPosition
    /\ mSrcCrop' = p.mSrcCrop
    /\ mCurrentDataBuffer' = p.mCurrentDataBuffer
    /\ mUpdateMasks' = p.mUpdateMasks
    /\ mappers' = p.mappers
    /\ calls' = p.calls
    /\ lastOp' = op

\* The record of an operation; flip also records the operation it follows.
Op(name, arg, ret, why) ==
    [name |-> name, arg |-> arg, ret |-> ret, why |-> why,
     prev |-> "", prevRet |-> FALSE]
FlipOp(ret) ==
    [name |-> "flip", arg |-> 0, ret |-> ret, why |-> "",
     prev |-> IF lastOp.name \in {"initialize", "flip"} THEN lastOp.name ELSE "",
     prevRet |-> lastOp.name = "flip" /\ lastOp.ret]
\* setPosition records whether it repeats the call before it.
SetPositionOp(r) ==
    [name |-> "setPosition", arg |-> r, ret |-> TRUE, why |-> "",
     prev |-> IF lastOp.name = "setPosition" /\ lastOp.arg = r
              THEN "setPosition" ELSE "",
     prevRet |-> FALSE]
\* deinitialize records whether it follows a deinitialize, and whether that one
\* had anything to release.
DeinitializeOp ==
    [name |-> "deinitialize", arg |-> 0, ret |-> TRUE, why |-> "",
     prev |-> IF lastOp.name = "deinitialize" THEN "deinitialize" ELSE "",
     prevRet |-> lastOp.name = "deinitialize" /\ calls # <<>>]
\* reset records the case of an empty cache with buffers still active.
ResetOp ==
    [name |-> "reset", arg |-> 0, ret |-> TRUE,
     why |-> IF DOMAIN mDataBuffers = {} /\ Len(mActiveBuffers) > 0
             THEN "ActiveBuffersOnly" ELSE "",
     prev |-> "", prevRet |-> FALSE]

EmptyCache == [k \in {} |-> 0]

\* ------------------------------------------------------------ collaborators
Call(fn, arg, held) == [fn |-> fn, arg |-> arg, held |-> held]
Log(p, fn, arg) == [p EXCEPT !.calls = Append(@, Call(fn, arg, FALSE))]

\* DataBuffer::getKey / BufferMapper::getKey: the buffer identity of a handle.
getKey(handle) == handle

\* GraphicBuffer::isProtectedBuffer: what the gralloc usage of the buffer says.
Protections == BOOLEAN

Range(f) == {f[k] : k \in DOMAIN f}
Holds(p, m) ==
    \/ m \in Range(p.mDataBuffers)
    \/ \E i \in 1..Len(p.mActiveBuffers) : p.mActiveBuffers[i] = m

\* BufferManager::unmap: drops one reference of the mapper; the mapper is
\* released when the last one goes.
bmUnmap(p, m) ==
    [p EXCEPT !.mappers[m].ref = @ - 1,
              !.calls = Append(@, Call("unmap", m, Holds(p, m)))]

\* BufferMapper::incRef
incRef(p, m) ==
    [p EXCEPT !.mappers[m].ref = @ + 1,
              !.calls = Append(@, Call("incRef", m, FALSE))]

\* BufferManager::map, successful: a new mapper for the buffer, holding one reference.
\* The identity of the new object: the plane never compares or orders mapper
\* addresses, so the first free identity among those of the key stands for any.
Generations == 0..3
MapperId(key, n) == key * (Cardinality(Generations)) + n
NewMapper(p, key) ==
    MapperId(key, CHOOSE n \in Generations :
                      /\ MapperId(key, n) \notin DOMAIN p.mappers
                      /\ \A k \in Generations :
                             k < n => MapperId(key, k) \in DOMAIN p.mappers)
bmMap(p, key) ==
    [p EXCEPT !.mappers =
        [m \in DOMAIN @ \cup {NewMapper(p, key)} |->
            IF m = NewMapper(p, key)
            THEN [key |-> key, ref |-> 1]
            ELSE @[m]]]

RECURSIVE UnmapAll(_, _)
UnmapAll(p, ms) ==
    IF ms = <<>> THEN p ELSE UnmapAll(bmUnmap(p, Head(ms)), Tail(ms))

\* The values of a KeyedVector in index order, which is key order.
RECURSIVE ValuesInOrder(_)
ValuesInOrder(f) ==
    IF DOMAIN f = {} THEN <<>>
    ELSE LET k == CHOOSE x \in DOMAIN f : \A y \in DOMAIN f : x <= y
         IN  <<f[k]>> \o ValuesInOrder([j \in DOMAIN f \ {k} |-> f[j]])

\* ------------------------------------------------------------ DisplayPlane
\* RETURN_VOID_IF_NOT_INIT, taken: the method returns with nothing done.
notInit(p) == Log(p, "RETURN_VOID_IF_NOT_INIT", 0)

\* mutant: the active buffers are forgotten without their unmap
invalidateActiveBuffers_NoUnmap(p) ==
    IF ~p.mInitialized THEN notInit(p)
    ELSE [p EXCEPT !.mActiveBuffers = <<>>]

invalidateActiveBuffers(p) ==
    IF ~p.mInitialized THEN notInit(p)
    ELSE [UnmapAll(p, p.mActiveBuffers) EXCEPT !.mActiveBuffers = <<>>]

\* mutant: the cache is emptied and the bound buffer stays
invalidateBufferCache_KeepsCurrent(p) ==
    IF ~p.mInitialized THEN notInit(p)
    ELSE [UnmapAll(p, ValuesInOrder(p.mDataBuffers)) EXCEPT
              !.mDataBuffers = EmptyCache]

invalidateBufferCache(p) ==
    IF ~p.mInitialized THEN notInit(p)
    ELSE [UnmapAll(p, ValuesInOrder(p.mDataBuffers)) EXCEPT
              !.mDataBuffers = EmptyCache,
              !.mCurrentDataBuffer = 0]

\* mutant: initialize also drops the pending dirty bits
initialize_ClearsMask(p, bufferCount) ==
    LET count == IF bufferCount < MIN_DATA_BUFFER_COUNT
                 THEN MIN_DATA_BUFFER_COUNT ELSE bufferCount
    IN  [p EXCEPT !.mCacheCapacity = count, !.mInitialized = TRUE,
                  !.mUpdateMasks = {}]

initialize(p, bufferCount) ==
    LET count == IF bufferCount < MIN_DATA_BUFFER_COUNT
                 THEN MIN_DATA_BUFFER_COUNT ELSE bufferCount
    IN  [p EXCEPT !.mCacheCapacity = count, !.mInitialized = TRUE]

\* mutant: the plane is marked uninitialized with its buffers left in place
deinitialize_NoDrain(p) ==
    [p EXCEPT !.mCurrentDataBuffer = 0, !.mInitialized = FALSE]

\* mutant: the plane is marked uninitialized before its buffers are released
deinitialize_FlagFirst(p) ==
    LET p0 == [p EXCEPT !.mInitialized = FALSE]
        p1 == IF Cardinality(DOMAIN p0.mDataBuffers) # 0
              THEN invalidateBufferCache(p0) ELSE p0
        p2 == IF Len(p1.mActiveBuffers) # 0
              THEN invalidateActiveBuffers(p1) ELSE p1
    IN  [p2 EXCEPT !.mCurrentDataBuffer = 0]

deinitialize(p) ==
    LET p1 == IF Cardinality(DOMAIN p.mDataBuffers) # 0
              THEN invalidateBufferCache(p) ELSE p
        p2 == IF Len(p1.mActiveBuffers) # 0
              THEN invalidateActiveBuffers(p1) ELSE p1
    IN  [p2 EXCEPT !.mCurrentDataBuffer = 0, !.mInitialized = FALSE]

\* mutant: reset releases the cache and leaves the active buffers
reset_CacheOnly(p) ==
    IF Cardinality(DOMAIN p.mDataBuffers) > 0 THEN invalidateBufferCache(p) ELSE p

reset(p) ==
    LET p1 == IF Cardinality(DOMAIN p.mDataBuffers) > 0
              THEN invalidateBufferCache(p) ELSE p
    IN  IF Len(p1.mActiveBuffers) > 0 THEN invalidateActiveBuffers(p1) ELSE p1

\* mutant: the position bit is left as it is when the rectangle is the same
setPosition_KeepsBit(p, r) ==
    IF p.mPosition = r
    THEN p
    ELSE [p EXCEPT !.mPosition = r,
                   !.mUpdateMasks = @ \cup {PLANE_POSITION_CHANGED}]

setPosition(p, r) ==
    IF p.mPosition = r
    THEN [p EXCEPT !.mUpdateMasks = @ \ {PLANE_POSITION_CHANGED}]
    ELSE [p EXCEPT !.mPosition = r,
                   !.mUpdateMasks = @ \cup {PLANE_POSITION_CHANGED}]

setSourceCrop(p, r) ==
    IF p.mSrcCrop = r
    THEN [p EXCEPT !.mUpdateMasks = @ \ {PLANE_SOURCE_CROP_CHANGED}]
    ELSE [p EXCEPT !.mSrcCrop = r,
                   !.mUpdateMasks = @ \cup {PLANE_SOURCE_CROP_CHANGED}]

setTransform(p, trans) ==
    IF p.mTransform = trans
    THEN [p EXCEPT !.mUpdateMasks = @ \ {PLANE_TRANSFORM_CHANGED}]
    ELSE [p EXCEPT !.mTransform =
                       IF trans \in {PLANE_TRANSFORM_90, PLANE_TRANSFORM_180,
                                     PLANE_TRANSFORM_270}
                       THEN trans ELSE PLANE_TRANSFORM_0,
                   !.mUpdateMasks = @ \cup {PLANE_TRANSFORM_CHANGED}]

\* mutant: the device is assigned whether the plane is initialized or not
assignToDevice_NoInitCheck(p, disp) ==
    [plane |-> [p EXCEPT !.mDevice = disp], ret |-> TRUE]

assignToDevice(p, disp) ==
    IF ~p.mInitialized THEN [plane |-> p, ret |-> FALSE]
    ELSE [plane |-> [p EXCEPT !.mDevice = disp], ret |-> TRUE]

\* mutant: flip answers from the dirty mask alone
flip_IgnoresInit(p) ==
    IF p.mUpdateMasks = {} THEN FALSE ELSE TRUE

flip(p) ==
    IF ~p.mInitialized THEN FALSE
    ELSE IF p.mUpdateMasks = {} THEN FALSE ELSE TRUE

\* mutant: the buffer bit is set whatever the handle
markBufferChanged_AlwaysSet(p, handle) ==
    [p EXCEPT !.mUpdateMasks = @ \cup {PLANE_BUFFER_CHANGED}]

\* setDataBuffer, lines 194-198: the buffer bit follows the handle comparison.
markBufferChanged(p, handle) ==
    IF p.mCurrentDataBuffer # handle
    THEN [p EXCEPT !.mUpdateMasks = @ \cup {PLANE_BUFFER_CHANGED}]
    ELSE [p EXCEPT !.mUpdateMasks = @ \ {PLANE_BUFFER_CHANGED}]

\* setDataBuffer, lines 200-203: nothing to do when no bit is set.
noUpdate(p) == p.mUpdateMasks = {}

\* mutant: the cache is found full one entry too late
cacheIsFull_Late(p) == Cardinality(DOMAIN p.mDataBuffers) > p.mCacheCapacity

\* mapBuffer, line 250: whether the cache is full
cacheIsFull(p) == Cardinality(DOMAIN p.mDataBuffers) >= p.mCacheCapacity

\* mapBuffer(buffer); mapper = 0 is the NULL result.
mapBuffer(p, handle, outcome) ==
    LET p1 == IF cacheIsFull(p) THEN invalidateBufferCache(p) ELSE p
        p2 == Log(p1, "map", handle)
    IN  IF outcome = "mapfail" THEN [plane |-> p2, mapper |-> 0]
        ELSE LET m  == NewMapper(p2, getKey(handle))
                 p3 == bmMap(p2, getKey(handle))
             IN  IF outcome = "addfail"
                 THEN [plane |-> bmUnmap(p3, m), mapper |-> 0]
                 ELSE [plane |-> [p3 EXCEPT !.mDataBuffers =
                                     [k \in DOMAIN @ \cup {getKey(handle)} |->
                                         IF k = getKey(handle) THEN m ELSE @[k]]],
                       mapper |-> m]

isActiveBuffer(p, mapper) ==
    \E i \in 1..Len(p.mActiveBuffers) :
        p.mappers[p.mActiveBuffers[i]].key = p.mappers[mapper].key

\* mutant: the queue is found full one entry too late
evictOldest_Late(p) ==
    IF Len(p.mActiveBuffers) > MIN_DATA_BUFFER_COUNT
    THEN [bmUnmap(p, p.mActiveBuffers[1]) EXCEPT !.mActiveBuffers = Tail(@)]
    ELSE p

\* mutant: the newest entry goes instead of the oldest
evictOldest_Newest(p) ==
    IF Len(p.mActiveBuffers) >= MIN_DATA_BUFFER_COUNT
    THEN [bmUnmap(p, p.mActiveBuffers[Len(p.mActiveBuffers)]) EXCEPT
             !.mActiveBuffers = SubSeq(@, 1, Len(@) - 1)]
    ELSE p

\* updateActiveBuffers, lines 288-293: the oldest entry goes when the queue is full.
evictOldest(p) ==
    IF Len(p.mActiveBuffers) >= MIN_DATA_BUFFER_COUNT
    THEN [bmUnmap(p, p.mActiveBuffers[1]) EXCEPT !.mActiveBuffers = Tail(@)]
    ELSE p

\* mutant: the mapper is queued without taking a reference
queueMapper_NoIncRef(p, mapper) ==
    IF ~isActiveBuffer(p, mapper)
    THEN [p EXCEPT !.mActiveBuffers = Append(@, mapper)]
    ELSE p

\* updateActiveBuffers, lines 295-299: queue the mapper unless its key is queued.
queueMapper(p, mapper) ==
    IF ~isActiveBuffer(p, mapper)
    THEN [incRef(p, mapper) EXCEPT !.mActiveBuffers = Append(@, mapper)]
    ELSE p

updateActiveBuffers(p, mapper) == queueMapper(evictOldest(p), mapper)

\* setDataBuffer, lines 205-242: the part after the early returns.
bindBuffer(p, handle, outcome, isProtected) ==
    IF outcome = "lockfail"
    THEN [plane |-> Log(p, "lockDataBuffer", handle), ret |-> FALSE,
          why |-> "BufferLockFailed"]
    ELSE
    LET p1 == Log(Log(p, "lockDataBuffer", handle), "DataBuffer::setCrop", handle)
        p2 == [Log(p1, "isProtectedBuffer", handle) EXCEPT
                  !.mIsProtectedBuffer = isProtected]
        hit == getKey(handle) \in DOMAIN p2.mDataBuffers
        got == IF hit
               THEN [plane |-> Log(p2, "BufferMapper::setCrop",
                                   p2.mDataBuffers[getKey(handle)]),
                     mapper |-> p2.mDataBuffers[getKey(handle)]]
               ELSE mapBuffer(p2, handle, outcome)
        p3 == Log(got.plane, "unlockDataBuffer", handle)
    IN  IF got.mapper = 0
        THEN [plane |-> p3, ret |-> FALSE, why |-> "MapFailed"]
        ELSE LET p4 == Log(p3, "setDataBuffer(mapper)", got.mapper)
             IN  IF outcome = "setfail"
                 THEN [plane |-> p4, ret |-> FALSE, why |-> "SetFailed"]
                 ELSE [plane |-> updateActiveBuffers(
                                    [p4 EXCEPT !.mCurrentDataBuffer = handle],
                                    got.mapper),
                       ret |-> TRUE, why |-> "OK"]

setDataBuffer(p, handle, outcome, isProtected) ==
    IF ~p.mInitialized
    THEN [plane |-> p, ret |-> FALSE, why |-> "NotInitialized"]
    ELSE IF handle = 0
    THEN [plane |-> p, ret |-> FALSE, why |-> "InvalidHandle"]
    ELSE LET p1 == markBufferChanged(p, handle)
         IN  IF noUpdate(p1)
             THEN [plane |-> p1, ret |-> TRUE, why |-> "NoUpdate"]
             ELSE bindBuffer(p1, handle, outcome, isProtected)

\* ------------------------------------------------------------------ actions
Init ==
    /\ mDevice = 0
    /\ mInitialized = FALSE
    /\ mDataBuffers = EmptyCache
    /\ mActiveBuffers = <<>>
    /\ mCacheCapacity = 0
    /\ mIsProtectedBuffer = FALSE
    /\ mTransform = PLANE_TRANSFORM_0
    /\ mPosition = ZeroRect
    /\ mSrcCrop = ZeroRect
    /\ mCurrentDataBuffer = 0
    /\ mUpdateMasks = {}
    /\ mappers = EmptyCache
    /\ calls = <<>>
    /\ lastOp = Op("DisplayPlane", 0, TRUE, "")

Initialize ==
    \E bufferCount \in BufferCounts :
        Commit(initialize(Plane, bufferCount), Op("initialize", bufferCount, TRUE, ""))

Deinitialize == Commit(deinitialize(Plane), DeinitializeOp)

Reset == Commit(reset(Plane), ResetOp)

SetPositionIn(rects) ==
    \E r \in rects : Commit(setPosition(Plane, r), SetPositionOp(r))

SetPosition == SetPositionIn(Rects)

\* setPosition between two places, which sets and clears the position bit
MovePlane == SetPositionIn({ZeroRect, Rect(0, 0, 1, 1)})

SetSourceCrop ==
    \E r \in Rects : Commit(setSourceCrop(Plane, r), Op("setSourceCrop", r, TRUE, ""))

SetTransform ==
    \E t \in Transforms : Commit(setTransform(Plane, t), Op("setTransform", t, TRUE, ""))

SetDataBufferIn(handles, outcomes, protections) ==
    \E handle \in handles, outcome \in outcomes, isProtected \in protections :
        \E r \in {setDataBuffer(Plane, handle, outcome, isProtected)} :
            Commit(r.plane, Op("setDataBuffer", handle, r.ret, r.why))

\* setDataBuffer on unprotected buffers, with every outcome of the collaborators
SetDataBuffer == SetDataBufferIn(Handles, Outcomes, {FALSE})

\* setDataBuffer on the invalid handle and on one buffer, which the lock may refuse
SetOneDataBuffer == SetDataBufferIn(0..1, {"lockfail", "ok"}, Protections)

AssignToDevice ==
    \E disp \in Devices :
        LET r == assignToDevice(Plane, disp)
        IN  Commit(r.plane, Op("assignToDevice", disp, r.ret, ""))

Flip == Commit(Plane, FlipOp(flip(Plane)))

\* The buffer pipeline: every outcome of every collaborator, over MaxHandle
\* unprotected buffers; setPosition is the setter that dirties the plane
\* between buffers.
NextBuffers ==
    \/ Initialize
    \/ Deinitialize
    \/ Reset
    \/ MovePlane
    \/ SetDataBuffer

SpecBuffers == Init /\ [][NextBuffers]_vars

\* The dirty mask: every setter and the commit decision, over one buffer,
\* protected or not.
NextDirty ==
    \/ Initialize
    \/ Deinitialize
    \/ SetPosition
    \/ SetSourceCrop
    \/ SetTransform
    \/ SetOneDataBuffer
    \/ AssignToDevice
    \/ Flip

SpecDirty == Init /\ [][NextDirty]_vars

\* ------------------------------------------------------------------ claims
CacheSize == Cardinality(DOMAIN mDataBuffers)
CallIndexes(fn) == {i \in 1..Len(calls) : calls[i].fn = fn}
ActiveKeys == {mappers[mActiveBuffers[i]].key : i \in 1..Len(mActiveBuffers)}
\* the position in calls at which updateActiveBuffers starts, when it ran
Admitting(i) == i \in CallIndexes("setDataBuffer(mapper)") /\ lastOp.why = "OK"

\* C1: once an operation has completed, the mapping cache holds at most
\* mCacheCapacity entries.  initialize on a plane whose cache is populated lowers
\* the capacity and leaves the entries, so this fails.
C1_CacheWithinCapacity == CacheSize <= mCacheCapacity

\* C2: the active buffers never number more than MIN_DATA_BUFFER_COUNT.
C2_ActiveWithinMin == Len(mActiveBuffers) <= MIN_DATA_BUFFER_COUNT

\* C2 witness: a setDataBuffer that found the queue full, dropped the oldest entry
\* and queued its mapper, leaving the queue full again.
C2_Witness ==
    /\ Len(mActiveBuffers) = MIN_DATA_BUFFER_COUNT
    /\ \E i \in 1..Len(calls) :
          /\ Admitting(i)
          /\ i + 2 <= Len(calls)
          /\ calls[i + 1].fn = "unmap"
          /\ calls[i + 2].fn = "incRef"

\* C3: an operation that admits to the active buffers removes at most the front
\* entry, keeps the others in their order and queues the admitted mapper at the
\* back; so the entry removed is the one admitted earliest among those present.
C3_FifoStep ==
    LET a == mActiveBuffers
        b == mActiveBuffers'
    IN  lastOp'.name = "setDataBuffer" =>
            \/ b = a
            \/ \E m \in DOMAIN mappers' : b = Append(a, m)
            \/ a # <<>> /\ b = Tail(a)
            \/ a # <<>> /\ \E m \in DOMAIN mappers' : b = Append(Tail(a), m)
C3_FifoEviction == [][C3_FifoStep]_vars

\* C3 witness: the queue was full of two other mappers, the front one was
\* unmapped and the admitted one is at the back.
C3_Witness ==
    /\ Len(mActiveBuffers) = MIN_DATA_BUFFER_COUNT
    /\ \E i \in 1..Len(calls) :
          /\ Admitting(i)
          /\ i + 2 <= Len(calls)
          /\ calls[i + 1].fn = "unmap"
          /\ calls[i + 2].fn = "incRef"
          /\ calls[i + 1].arg # calls[i + 2].arg
          /\ mActiveBuffers[Len(mActiveBuffers)] = calls[i + 2].arg
          /\ \A j \in 1..Len(mActiveBuffers) : mActiveBuffers[j] # calls[i + 1].arg

\* C4: a successful setDataBuffer of a buffer whose key is already among the
\* active buffers leaves the active buffers as they were (same size, nothing
\* evicted, no key twice).  updateActiveBuffers drops the oldest entry of a full
\* queue before it looks for the key, so this fails.
C4_ReadmitStep ==
    (/\ lastOp'.name = "setDataBuffer"
     /\ lastOp'.why = "OK"
     /\ getKey(lastOp'.arg) \in ActiveKeys)
    => /\ mActiveBuffers' = mActiveBuffers
       /\ ~ \E i \in CallIndexes("unmap")' : i > 0
C4_ReadmitIsNoOp == [][C4_ReadmitStep]_vars

\* C5: a successful setDataBuffer of a buffer that is not cached, on a cache
\* filled to its capacity, leaves the cache with that buffer's new mapper alone;
\* a setDataBuffer of a cached buffer leaves the cache as it is.
C5_OverflowStep ==
    LET key == getKey(lastOp'.arg)
    IN  lastOp'.name = "setDataBuffer" =>
            /\ key \in DOMAIN mDataBuffers => mDataBuffers' = mDataBuffers
            /\ (/\ lastOp'.why = "OK"
                /\ key \notin DOMAIN mDataBuffers
                /\ CacheSize = mCacheCapacity)
               => /\ DOMAIN mDataBuffers' = {key}
                  /\ mDataBuffers'[key] \notin Range(mDataBuffers)
                  /\ \A m \in Range(mDataBuffers) :
                        \E i \in CallIndexes("unmap")' : calls'[i].arg = m
C5_FullCacheEviction == [][C5_OverflowStep]_vars

\* C5 witness: the cache invalidation unmapped mCacheCapacity mappers ahead of
\* the map, and the cache holds the one new entry.
C5_Witness ==
    /\ lastOp.name = "setDataBuffer"
    /\ lastOp.why = "OK"
    /\ CacheSize = 1
    /\ DOMAIN mDataBuffers = {getKey(lastOp.arg)}
    /\ \E i \in CallIndexes("map") :
          Cardinality({j \in CallIndexes("unmap") : j < i}) = mCacheCapacity

UnmapCount(m) == Cardinality({i \in CallIndexes("unmap") : calls[i].arg = m})
Draining == lastOp.name \in {"reset", "deinitialize"}

\* C6, as claimed: reset and deinitialize ask the unmap of each mapper they
\* release exactly once.  A mapper that is cached and active holds two
\* references and is unmapped twice, so this fails.
C6_UnmapOncePerMap == Draining => \A m \in DOMAIN mappers : UnmapCount(m) = 1

\* C6, amended: reset and deinitialize ask the unmap of each mapper once for each
\* reference it holds (the one of its map, and one for each incRef of an
\* admission that no eviction has given back), and leave its count at zero.
C6_DrainStep ==
    Draining' =>
        \A m \in DOMAIN mappers' :
            /\ m \in DOMAIN mappers
            /\ UnmapCount(m)' = mappers[m].ref
            /\ mappers'[m].ref = 0
C6_UnmapOncePerReference == [][C6_DrainStep]_vars

\* C6 witness: a reset that unmapped one mapper twice and another one once.
C6_Witness ==
    /\ lastOp.name = "reset"
    /\ \E m1, m2 \in DOMAIN mappers : UnmapCount(m1) = 2 /\ UnmapCount(m2) = 1

\* C7: a setDataBuffer that fails at the lock or at the map leaves the bound
\* buffer, the dirty mask, the cache and the active buffers as they were.  The
\* buffer bit is set before the lock, and mapBuffer empties a full cache (and
\* the bound buffer with it) before the map, so this fails.
C7_FailureStep ==
    (lastOp'.name = "setDataBuffer" /\ lastOp'.why \in {"BufferLockFailed", "MapFailed"})
    => /\ mCurrentDataBuffer' = mCurrentDataBuffer
       /\ mUpdateMasks' = mUpdateMasks
       /\ mDataBuffers' = mDataBuffers
       /\ mActiveBuffers' = mActiveBuffers
C7_FailureLeavesState == [][C7_FailureStep]_vars

\* the plane's members but the dirty mask stay as they are
UnchangedButMask ==
    UNCHANGED <<mDevice, mInitialized, mDataBuffers, mActiveBuffers, mCacheCapacity,
                mIsProtectedBuffer, mTransform, mPosition, mSrcCrop,
                mCurrentDataBuffer>>
Resubmitting ==
    /\ lastOp'.name = "setDataBuffer"
    /\ mInitialized
    /\ lastOp'.arg # 0
    /\ lastOp'.arg = mCurrentDataBuffer

\* C8, as claimed: setDataBuffer of the bound buffer clears the buffer bit and
\* does nothing else, whatever the other bits.  With another bit set the whole
\* of setDataBuffer runs, so this fails.
C8_ResubmitStep ==
    Resubmitting =>
        /\ mUpdateMasks' = mUpdateMasks \ {PLANE_BUFFER_CHANGED}
        /\ calls' = <<>>
        /\ UnchangedButMask
C8_ResubmitDoesNothing == [][C8_ResubmitStep]_vars

\* C8, amended: setDataBuffer of the bound buffer clears the buffer bit; with no
\* other bit set it does nothing else and returns true; with another bit set it
\* goes on to lock the buffer and runs as for any buffer.
C8_AmendedStep ==
    Resubmitting =>
        /\ PLANE_BUFFER_CHANGED \notin mUpdateMasks'
        /\ IF mUpdateMasks \ {PLANE_BUFFER_CHANGED} = {}
           THEN /\ mUpdateMasks' = {}
                /\ calls' = <<>>
                /\ lastOp'.ret
                /\ lastOp'.why = "NoUpdate"
                /\ UnchangedButMask
           ELSE /\ calls' # <<>>
                /\ calls'[1].fn = "lockDataBuffer"
                /\ lastOp'.why # "NoUpdate"
C8_ResubmitWhenClean == [][C8_AmendedStep]_vars

\* C8 witness: the bound buffer was set again with no bit left, and nothing else
\* was done.
C8_Witness ==
    /\ lastOp.name = "setDataBuffer"
    /\ lastOp.why = "NoUpdate"
    /\ lastOp.arg = mCurrentDataBuffer
    /\ mCurrentDataBuffer # 0
    /\ mUpdateMasks = {}
    /\ calls = <<>>

FlipAfter(name) == lastOp.name = "flip" /\ lastOp.prev = name

\* C9, as claimed: a flip that follows initialize returns false, whatever came
\* before the initialize.  initialize leaves the dirty mask alone, so a bit set
\* by a setter before it is still there, and this fails.
C9_FlipFalseAfterInitialize == FlipAfter("initialize") => ~lastOp.ret

\* C9, amended: initialize leaves the dirty mask as it finds it, and a flip that
\* follows it returns false exactly when no dirty bit is pending (as on a plane
\* just constructed), true when a setter changed a value before the initialize.
C9_InitializeStep ==
    /\ lastOp'.name = "initialize" => mInitialized' /\ mUpdateMasks' = mUpdateMasks
    /\ FlipAfter("initialize")' => (lastOp'.ret <=> mUpdateMasks # {})
C9_InitializeKeepsMask == [][C9_InitializeStep]_vars

\* C9 witness: the position was set (and set again, which cleared its bit) before
\* the initialize, and the flip after it returned false.
C9_Witness ==
    /\ FlipAfter("initialize")
    /\ ~lastOp.ret
    /\ mPosition # ZeroRect

\* C10: a flip that returned true has consumed the dirty mask, so that a flip
\* right after it returns false.  flip only reads mUpdateMasks and nothing in
\* the plane clears it after a flip, so this fails.
C10_FlipConsumesMask == (FlipAfter("flip") /\ lastOp.prevRet) => ~lastOp.ret

\* C11, as claimed: in every state flip returns true exactly when a dirty bit is
\* set, changes made before initialize included.  flip returns false on a plane
\* that is not initialized, whatever the mask, so this fails.
C11_FlipIsOrOfBits == lastOp.name = "flip" => (lastOp.ret <=> mUpdateMasks # {})

\* C11, amended: on an initialized plane flip returns true exactly when a dirty
\* bit is set; on a plane that is not initialized it returns false, whatever
\* the mask.
C11_FlipWhenInitialized ==
    lastOp.name = "flip" => (lastOp.ret <=> (mInitialized /\ mUpdateMasks # {}))

\* C11 witness: a flip that returned true with the source crop bit alone.
C11_Witness ==
    /\ lastOp.name = "flip"
    /\ lastOp.ret
    /\ mInitialized
    /\ mUpdateMasks = {PLANE_SOURCE_CROP_CHANGED}

\* C12: setTransform stores 90, 180 or 270 as given and the identity for any
\* other value, and leaves the transform bit set only when the stored value
\* after the call differs from the one before.  The comparison is made with
\* the value as given, ahead of the normalisation, so an unsupported value on
\* an identity transform sets the bit, and this fails.
C12_TransformStep ==
    LET trans == lastOp'.arg
    IN  lastOp'.name = "setTransform" =>
            /\ mTransform' = IF trans \in {PLANE_TRANSFORM_90, PLANE_TRANSFORM_180,
                                           PLANE_TRANSFORM_270}
                             THEN trans ELSE PLANE_TRANSFORM_0
            /\ PLANE_TRANSFORM_CHANGED \in mUpdateMasks' <=> mTransform' # mTransform
C12_TransformNormalized == [][C12_TransformStep]_vars

OtherBitsKept ==
    mUpdateMasks' \ {PLANE_POSITION_CHANGED} = mUpdateMasks \ {PLANE_POSITION_CHANGED}
\* the step is the second of two setPosition calls in a row with one rectangle
SecondSetPosition == lastOp'.name = "setPosition" /\ lastOp'.prev = "setPosition"

\* C13, as claimed: of two setPosition(R) calls in a row, whatever R and the
\* state, the first leaves the position bit set and the second clears it, the
\* position is R and no other bit is touched.  When R is the position the
\* plane already has, the first call clears the bit too, so this fails.
C13_TwiceStep ==
    SecondSetPosition =>
        /\ PLANE_POSITION_CHANGED \in mUpdateMasks
        /\ PLANE_POSITION_CHANGED \notin mUpdateMasks'
        /\ mPosition' = lastOp'.arg
        /\ OtherBitsKept
C13_SetPositionTwice == [][C13_TwiceStep]_vars

\* C13, amended: setPosition(R) leaves the position bit set exactly when R
\* differs from the position it finds, stores R and touches no other bit; so
\* the second of two calls in a row with one R clears the bit, and the first
\* sets it when R is not the position the plane already has.
C13_AmendedStep ==
    /\ lastOp'.name = "setPosition" =>
          /\ PLANE_POSITION_CHANGED \in mUpdateMasks' <=> mPosition # lastOp'.arg
          /\ mPosition' = lastOp'.arg
          /\ OtherBitsKept
    /\ SecondSetPosition =>
          /\ PLANE_POSITION_CHANGED \notin mUpdateMasks'
          /\ mPosition' = mPosition
C13_SetPositionDetectsChange == [][C13_AmendedStep]_vars

\* C13 witness: the second of two setPosition calls in a row with one rectangle,
\* not the one of construction, which left the pending transform bit alone.
C13_Witness ==
    /\ lastOp.name = "setPosition"
    /\ lastOp.prev = "setPosition"
    /\ lastOp.arg # ZeroRect
    /\ mPosition = lastOp.arg
    /\ mUpdateMasks = {PLANE_TRANSFORM_CHANGED}

\* C14: on a plane that is not initialized (never initialized, or
\* deinitialized), setDataBuffer and assignToDevice return false, call no
\* collaborator and leave the plane's members as they are, and flip returns
\* false.
C14_GatingStep ==
    ~mInitialized =>
        /\ lastOp'.name \in {"setDataBuffer", "assignToDevice"} =>
              /\ ~lastOp'.ret
              /\ calls' = <<>>
              /\ UnchangedButMask
              /\ UNCHANGED mUpdateMasks
        /\ lastOp'.name = "setDataBuffer" => lastOp'.why = "NotInitialized"
        /\ lastOp'.name = "flip" => ~lastOp'.ret
C14_NotInitializedGating == [][C14_GatingStep]_vars

\* C14 witness: setDataBuffer of a valid handle refused on a plane that was
\* initialized once and is no more, with a dirty bit pending.
C14_Witness ==
    /\ ~mInitialized
    /\ mCacheCapacity >= MIN_DATA_BUFFER_COUNT
    /\ lastOp.name = "setDataBuffer"
    /\ lastOp.arg # 0
    /\ lastOp.why = "NotInitialized"
    /\ ~lastOp.ret
    /\ mUpdateMasks # {}

HeldMappers ==
    Range(mDataBuffers) \cup {mActiveBuffers[i] : i \in 1..Len(mActiveBuffers)}

\* C15: deinitialize leaves the cache and the active buffers empty, the bound
\* buffer cleared and the plane uninitialized, having asked the unmap of every
\* mapper the two held; a deinitialize that follows one unmaps nothing and
\* changes nothing.
C15_DeinitializeStep ==
    lastOp'.name = "deinitialize" =>
        /\ mDataBuffers' = EmptyCache
        /\ mActiveBuffers' = <<>>
        /\ mCurrentDataBuffer' = 0
        /\ ~mInitialized'
        /\ \A m \in HeldMappers : \E i \in CallIndexes("unmap")' : calls'[i].arg = m
        /\ \A i \in CallIndexes("unmap")' : calls'[i].arg \in HeldMappers
        /\ lastOp.name = "deinitialize" =>
              /\ calls' = <<>>
              /\ UnchangedButMask
              /\ UNCHANGED mUpdateMasks
C15_DeinitializeDrains == [][C15_DeinitializeStep]_vars

\* C15 witness: a deinitialize with nothing to do, after one that released the
\* mappers of a populated plane.
C15_Witness ==
    /\ lastOp.name = "deinitialize"
    /\ lastOp.prev = "deinitialize"
    /\ lastOp.prevRet
    /\ calls = <<>>
    /\ ~mInitialized
    /\ mDataBuffers = EmptyCache
    /\ mActiveBuffers = <<>>

\* C16: reset on an initialized plane leaves the cache and the active buffers
\* empty and the bound buffer cleared, and the plane initialized, whatever the
\* two held (an empty cache with buffers still active included).
C16_ResetStep ==
    (mInitialized /\ lastOp'.name = "reset") =>
        /\ mDataBuffers' = EmptyCache
        /\ mActiveBuffers' = <<>>
        /\ mCurrentDataBuffer' = 0
        /\ mInitialized'
C16_ResetDrains == [][C16_ResetStep]_vars

\* C16 witness: a reset that found the cache empty and buffers active, and
\* unmapped them.
C16_Witness ==
    /\ lastOp.name = "reset"
    /\ lastOp.why = "ActiveBuffersOnly"
    /\ mInitialized
    /\ CallIndexes("unmap") # {}
    /\ mDataBuffers = EmptyCache
    /\ mActiveBuffers = <<>>
    /\ mCurrentDataBuffer = 0

\* C17: at each unmap the plane asks, neither the cache nor the active buffers
\* hold the mapper any more.  updateActiveBuffers unmaps the front entry and
\* then removes it, and the two invalidations unmap every entry and then
\* clear, so this fails.
C17_NoUnmapWhileHeld == \A i \in CallIndexes("unmap") : ~calls[i].held

\* the number of structures that hold the mapper
HoldCount(m) ==
    (IF m \in Range(mDataBuffers) THEN 1 ELSE 0)
    + Cardinality({i \in 1..Len(mActiveBuffers) : mActiveBuffers[i] = m})

\* C18: with a count per mapper that a successful map starts at 1, incRef
\* increments and unmap decrements, once an operation has completed the count
\* of each mapper is the number of structures holding it (the cache, the
\* active buffers): never negative, zero only for a mapper in neither; and
\* after reset or deinitialize every count is zero.
C18_RefCountBalance ==
    /\ HeldMappers \subseteq DOMAIN mappers
    /\ \A m \in DOMAIN mappers :
          /\ mappers[m].ref = HoldCount(m)
          /\ mappers[m].ref >= 0
          /\ mappers[m].ref = 0 => m \notin HeldMappers
    /\ Draining => \A m \in DOMAIN mappers : mappers[m].ref = 0

\* C18 witness: after a setDataBuffer, one mapper is held by the cache and by
\* the active buffers, one by the active buffers alone, and one that the call
\* evicted by neither.
C18_Witness ==
    /\ lastOp.name = "setDataBuffer"
    /\ \E m1, m2, m3 \in DOMAIN mappers :
          /\ mappers[m1].ref = 2
          /\ mappers[m2].ref = 1 /\ m2 \notin Range(mDataBuffers)
          /\ mappers[m3].ref = 0

\* the bound buffer, if any, is cached and active, on an initialized plane
BoundIsMaterialized ==
    mCurrentDataBuffer # 0 =>
        /\ mInitialized
        /\ getKey(mCurrentDataBuffer) \in DOMAIN mDataBuffers
        /\ getKey(mCurrentDataBuffer) \in ActiveKeys
\* the step released every entry of a cache that held some
CacheInvalidated ==
    /\ mDataBuffers # EmptyCache
    /\ \A m \in Range(mDataBuffers) :
          /\ m \notin Range(mDataBuffers')
          /\ \E i \in CallIndexes("unmap")' : calls'[i].arg = m

\* C19: once an operation has completed, a bound buffer (mCurrentDataBuffer not
\* zero) means an initialized plane with that buffer's key in the cache and
\* among the active buffers; and an operation that invalidates the cache
\* leaves no buffer bound, but the one it binds itself afterwards.
C19_BoundStep ==
    /\ BoundIsMaterialized'
    /\ CacheInvalidated =>
          \/ mCurrentDataBuffer' = 0
          \/ /\ lastOp'.name = "setDataBuffer"
             /\ lastOp'.why = "OK"
             /\ mCurrentDataBuffer' = lastOp'.arg
             /\ DOMAIN mDataBuffers' = {getKey(lastOp'.arg)}
C19_BoundBufferMaterialized == [][C19_BoundStep]_vars

\* C19 witness: a buffer bound by a setDataBuffer that mapped it anew and
\* evicted the oldest active buffer, while the active buffers hold its key by
\* the mapper of an earlier map.
C19_Witness ==
    /\ lastOp.name = "setDataBuffer"
    /\ lastOp.why = "OK"
    /\ mCurrentDataBuffer = lastOp.arg
    /\ mInitialized
    /\ CallIndexes("unmap") # {}
    /\ DOMAIN mDataBuffers = {getKey(mCurrentDataBuffer)}
    /\ getKey(mCurrentDataBuffer) \in ActiveKeys
    /\ \A i \in 1..Len(mActiveBuffers) :
          mActiveBuffers[i] # mDataBuffers[getKey(mCurrentDataBuffer)]

\* C20: a plane that is not initialized has an empty cache, no active buffers
\* and no bound buffer; so no invalidateBufferCache or invalidateActiveBuffers
\* that reset, deinitialize or mapBuffer calls finds the plane uninitialized.
C20_InvalidateGuardNeverHit ==
    /\ ~mInitialized =>
          /\ mDataBuffers = EmptyCache
          /\ mActiveBuffers = <<>>
          /\ mCurrentDataBuffer = 0
    /\ CallIndexes("RETURN_VOID_IF_NOT_INIT") = {}

\* C20 witness: a deinitialize whose two invalidations ran on the initialized
\* plane and released a cached mapper and an active one that was cached no more.
C20_Witness ==
    /\ lastOp.name = "deinitialize"
    /\ ~mInitialized
    /\ \E m1, m2 \in DOMAIN mappers :
          /\ m1 # m2
          /\ mappers[m1].key = mappers[m2].key
          /\ UnmapCount(m1) = 1
          /\ UnmapCount(m2) = 1
====
